---- MODULE Spec2Model ----
(***************************************************************************)
(* Model of prototype.py: a MIDI-triggered video recorder with a pre-roll  *)
(* buffer.  Threads: the capture thread (_capture_frames), the encode      *)
(* worker (_encoding_worker), the main thread (the __main__ loop, or a     *)
(* caller of start_recording / stop_recording) and the MIDI driver thread  *)
(* that runs midi_callback.  A step of a thread is one region of its code  *)
(* that no other thread can observe half-done: a region under self.lock or *)
(* self.encode_lock, a single queue put, or a single attribute access.     *)
(***************************************************************************)
EXTENDS Integers, Sequences, FiniteSets, TLC

\* ---------------------------------------------------------------- bounds
\* self.buffer_size = int(fps * preroll_seconds); the model uses a small one.
BufferSize == 2
\* Frames the camera delivers in one run.
MaxFrames == 5
\* Sessions start_recording may create in one run.
MaxSessions == 2
\* Encoder failures injected in one run.
MaxErrors == 1

\* MIDI messages the controller delivers in one run.
MaxEvents == 3
\* Times the controller is plugged or unplugged in one run.
MaxPlugs == 2

\* ------------------------------------------------------------- constants
\* Line 91: pedal values below 40 are "released".
PedalThreshold == 40
\* Line 510: seconds without activity before the recording is stopped.
Linger == 7
\* Python's None, for current_recording_id and last_event_time.
None == -1
\* Line 222: Queue() is Queue(maxsize=0), a queue without a size limit.
QueueMaxSize == 0

VARIABLES
    \* VideoRecorder fields
    recording,              \* self.recording
    current_recording_id,   \* self.current_recording_id
    next_recording_id,      \* self.next_recording_id
    active_recordings,      \* self.active_recordings: id -> [frame_count]
    frame_buffer,           \* self.frame_buffer (deque, maxlen = buffer_size)
    encoding_queue,         \* self.encoding_queue (FIFO of tasks)
    lock,                   \* self.lock: "free" or the thread holding it
    capture_running,        \* self.capture_running
    encoding_running,       \* self.encoding_running
    \* capture thread
    cap_pc,                 \* "read" | "tag" | "put"
    frames_to_encode,       \* local of _capture_frames: the swapped-out batch
    cap_task,               \* the task dict built at line 260-264, before put
    nframes,                \* frames read from the camera so far
    \* encode worker
    enc_pc,                 \* "get" | "encode" | "finalize"
    enc_task,               \* the task being processed
    enc_frame_count,        \* local frame_count of _encode_frames / _finalize_recording
    \* encoder / muxer / storage
    encoded,                \* id -> sequence of [frame, pts] handed to stream.encode
    files,                  \* ids whose bytes were written to a file
    nerrors,                \* encoder / storage failures so far
    \* main thread
    main_pc,                \* position of the main thread
    main_ret,               \* where the current call returns to
    rec_id,                 \* local recording_id of start_recording / stop_recording
    main_frames,            \* local frames_to_encode of start_recording
    device_connected,       \* local device_connected of the main loop
    \* MidiListener fields
    midi_open,              \* the port is open and the callback is set
    last_event_age,         \* time.time() - self.last_event_time in seconds (None: no
                            \* last_event_time), not counted beyond Linger + 1
    pedal_pressed,          \* self.pedal_pressed
    note_event_occurred,    \* self.note_event_occurred
    \* MIDI driver thread
    cb_pc,                  \* position inside midi_callback, "idle" between messages
    pedal_value,            \* local pedal_value of midi_callback
    nevents,                \* messages delivered so far
    \* environment
    device_present,         \* the controller is plugged in
    playing,                \* the performer may still send messages
    nplugs,                 \* plug / unplug events so far
    \* history (not program state)
    h_pulses,               \* times midi_callback raised note_event_occurred
    h_starts,               \* start_recording calls of the main loop
    h_fresh,                \* a pulse was raised since the loop last consumed or drained
    h_msg,                  \* the message midi_callback was last called with
    h_trig,                 \* nplugs when a pulse was last raised with the controller
                            \* connected and recording false; None when there was no
                            \* such pulse since recording was last set
    h_lastCall,             \* "start_noop" / "stop_noop" when the call that just
                            \* returned took the early return, else "none"
    h_preroll,              \* id -> the snapshot start_recording took for it
    h_snapAt,               \* id -> nframes at the snapshot
    h_enq,                  \* id -> frames put on the queue with that id
    h_finq,                 \* ids whose finalize_recording task was put
    h_final,                \* id -> frame_count read when finalize was processed
    h_errored,              \* ids with a failed encode
    h_finfail,              \* ids whose finalize failed
    h_pushes,               \* pushes since the buffer was last emptied
    h_capTaken              \* the session current when the capture thread swapped

recvars == <<recording, current_recording_id, next_recording_id, active_recordings,
             frame_buffer, encoding_queue, lock>>
runvars == <<capture_running, encoding_running>>
capvars == <<cap_pc, frames_to_encode, cap_task, nframes>>
encvars == <<enc_pc, enc_task, enc_frame_count, encoded, files, nerrors>>
mainvars == <<main_pc, main_ret, rec_id, main_frames>>
histvars == <<h_lastCall, h_preroll, h_snapAt, h_enq, h_finq, h_final, h_errored,
              h_finfail, h_pushes, h_capTaken>>
midivars == <<midi_open, last_event_age, pedal_pressed, note_event_occurred>>
cbvars == <<cb_pc, pedal_value, nevents>>
envvars == <<device_present, playing, nplugs>>
orchhist == <<h_pulses, h_starts, h_fresh, h_msg, h_trig>>
orchvars == <<device_connected, midivars, cbvars, envvars, orchhist>>
vars == <<recvars, runvars, capvars, encvars, mainvars, histvars, orchvars>>

Ids == 0 .. (MaxSessions - 1)

\* ------------------------------------------------------------- helpers
Min(a, b) == IF a < b THEN a ELSE b

\* A faulty variant of QueueFull: a queue created with maxsize=1.
QueueFull_Bounded(q) == Len(q) >= 1

\* Queue.put blocks while the queue is full; a queue with maxsize <= 0 never is.
QueueFull(q) == QueueMaxSize > 0 /\ Len(q) >= QueueMaxSize

\* A faulty variant of DequeAppend: a deque that never evicts.
DequeAppend_NoEvict(d, x, n) == Append(d, x)

\* deque(maxlen=n).append(x): drops the oldest element when full.
DequeAppend(d, x, n) ==
    IF n = 0 THEN <<>>
    ELSE IF Len(d) >= n THEN Append(Tail(d), x)
    ELSE Append(d, x)

\* The dict put on the queue.  taken_for is history: the session that was
\* current when the frames were copied out of the buffer.
EncodeTask(frames, id, taken) ==
    [type |-> "encode_frames", frames |-> frames, recording_id |-> id, taken_for |-> taken]

FinalizeTask(id) ==
    [type |-> "finalize_recording", frames |-> <<>>, recording_id |-> id, taken_for |-> id]

NoTask == [type |-> "none", frames |-> <<>>, recording_id |-> None, taken_for |-> None]

\* History of what was put with an id (ids outside Ids, such as None, are not counted).
NoteEnq(h, task) ==
    IF task.type = "encode_frames" /\ task.recording_id \in Ids
    THEN [h EXCEPT ![task.recording_id] = @ + Len(task.frames)]
    ELSE h

\* ---------------------------------------------------------------- Init
InitState ==
    /\ recording = FALSE
    /\ current_recording_id = None
    /\ next_recording_id = 0
    /\ active_recordings = << >>
    /\ frame_buffer = << >>
    /\ encoding_queue = << >>
    /\ lock = "free"
    /\ capture_running = TRUE
    /\ encoding_running = TRUE
    /\ cap_pc = "read"
    /\ frames_to_encode = << >>
    /\ cap_task = NoTask
    /\ nframes = 0
    /\ enc_pc = "get"
    /\ enc_task = NoTask
    /\ enc_frame_count = 0
    /\ encoded = [i \in Ids |-> << >>]
    /\ files = {}
    /\ nerrors = 0
    /\ main_ret = "idle"
    /\ rec_id = None
    /\ main_frames = << >>
    /\ h_lastCall = "none"
    /\ h_preroll = [i \in Ids |-> << >>]
    /\ h_snapAt = [i \in Ids |-> 0]
    /\ h_enq = [i \in Ids |-> 0]
    /\ h_finq = {}
    /\ h_final = [i \in Ids |-> None]
    /\ h_errored = {}
    /\ h_finfail = {}
    /\ h_pushes = 0
    /\ h_capTaken = None
    /\ device_connected = TRUE
    /\ midi_open = TRUE
    /\ last_event_age = None
    /\ pedal_pressed = FALSE
    /\ note_event_occurred = FALSE
    /\ cb_pc = "idle"
    /\ pedal_value = None
    /\ nevents = 0
    /\ device_present = TRUE
    /\ playing = TRUE
    /\ nplugs = 0
    /\ h_pulses = 0
    /\ h_starts = 0
    /\ h_fresh = FALSE
    /\ h_msg = [kind |-> "none", value |-> None]
    /\ h_trig = None

\* The recorder after construction, with a caller that has not called yet.
Init ==
    /\ InitState
    /\ main_pc = "idle"

\* ------------------------------------------------------ capture thread
\* A faulty variant of CaptureLocked: the swap of lines 250-254 left out.
CaptureLocked_NoSwap(frame) ==
    /\ frames_to_encode' = << >>
    /\ frame_buffer' = DequeAppend(frame_buffer, frame, BufferSize)
    /\ h_pushes' = h_pushes + 1
    /\ h_capTaken' = h_capTaken

\* _capture_frames, lines 243-257: read a frame; under self.lock swap out a
\* full buffer when recording, then append the frame.
CaptureLocked(frame) ==
    IF recording /\ Len(frame_buffer) >= BufferSize
    THEN /\ frames_to_encode' = frame_buffer
         /\ frame_buffer' = DequeAppend(<< >>, frame, BufferSize)
         /\ h_pushes' = 1
         /\ h_capTaken' = current_recording_id
    ELSE /\ frames_to_encode' = << >>
         /\ frame_buffer' = DequeAppend(frame_buffer, frame, BufferSize)
         /\ h_pushes' = h_pushes + 1
         /\ h_capTaken' = h_capTaken

CaptureFrame ==
    /\ UNCHANGED <<orchvars, runvars>>
    /\ capture_running
    /\ cap_pc = "read"
    /\ lock = "free"
    /\ nframes < MaxFrames
    /\ nframes' = nframes + 1
    /\ CaptureLocked(nframes + 1)
    /\ cap_pc' = IF frames_to_encode' # << >> THEN "tag" ELSE "read"
    /\ UNCHANGED <<recording, current_recording_id, next_recording_id, active_recordings,
                   encoding_queue, lock, cap_task, encvars, mainvars,
                   h_lastCall, h_preroll, h_snapAt, h_enq, h_finq, h_final, h_errored,
                   h_finfail>>

\* Lines 260-264: the dict is built (reading self.current_recording_id, with
\* no lock held) before put is called.
CaptureTaskId == current_recording_id

CaptureTag ==
    /\ UNCHANGED <<orchvars, runvars>>
    /\ cap_pc = "tag"
    /\ cap_task' = EncodeTask(frames_to_encode, CaptureTaskId, h_capTaken)
    /\ cap_pc' = "put"
    /\ UNCHANGED <<recvars, frames_to_encode, nframes, encvars, mainvars, histvars>>

\* Line 260: self.encoding_queue.put(...), outside the capture lock.
CapturePut ==
    /\ UNCHANGED <<orchvars, runvars>>
    /\ cap_pc = "put"
    /\ ~QueueFull(encoding_queue)
    /\ encoding_queue' = Append(encoding_queue, cap_task)
    /\ h_enq' = NoteEnq(h_enq, cap_task)
    /\ cap_task' = NoTask
    /\ frames_to_encode' = << >>
    /\ cap_pc' = "read"
    /\ UNCHANGED <<recording, current_recording_id, next_recording_id, active_recordings,
                   frame_buffer, lock, nframes, encvars, mainvars,
                   h_lastCall, h_preroll, h_snapAt, h_finq, h_final, h_errored,
                   h_finfail, h_pushes, h_capTaken>>

\* -------------------------------------------------------- encode worker
\* _encoding_worker line 273-278 with the first locked region of the handler:
\* _encode_frames lines 293-301, _finalize_recording lines 420-433.
WorkerGet ==
    /\ UNCHANGED <<orchvars, runvars>>
    /\ encoding_running
    /\ enc_pc = "get"
    /\ encoding_queue # << >>
    /\ LET task == Head(encoding_queue)
           id == task.recording_id
       IN /\ encoding_queue' = Tail(encoding_queue)
          /\ IF id \notin DOMAIN active_recordings
             THEN \* "Recording {id} not found": the task is dropped
                  /\ UNCHANGED <<enc_pc, enc_task, enc_frame_count, active_recordings,
                                 h_final>>
             ELSE /\ enc_task' = task
                  /\ enc_frame_count' = active_recordings[id].frame_count
                  /\ IF task.type = "encode_frames"
                     THEN /\ enc_pc' = "encode"
                          /\ UNCHANGED <<active_recordings, h_final>>
                     ELSE /\ enc_pc' = "finalize"
                          \* del self.active_recordings[recording_id]
                          /\ active_recordings' =
                                [i \in DOMAIN active_recordings \ {id} |->
                                    active_recordings[i]]
                          /\ h_final' = [h_final EXCEPT ![id] =
                                            active_recordings[id].frame_count]
    /\ UNCHANGED <<recording, current_recording_id, next_recording_id, frame_buffer, lock,
                   capvars, encoded, files, nerrors, mainvars,
                   h_lastCall, h_preroll, h_snapAt, h_enq, h_finq, h_errored, h_finfail,
                   h_pushes, h_capTaken>>

\* Line 310: av_frame.pts = frame_count + i (i from 0).
Pts(frame_count, i) == frame_count + i

\* The frames of a batch handed to stream.encode, the first k of them.
Stamped(frames, frame_count, k) ==
    [j \in 1 .. k |-> [frame |-> frames[j], pts |-> Pts(frame_count, j - 1)]]

\* Lines 318-320: the count written back after a batch was encoded.
NewFrameCount(frame_count, frames) == frame_count + Len(frames)

\* A faulty variant of AfterEncodeError: the exception ends the worker thread.
AfterEncodeError_Stops == "stopped"

\* Lines 325-328: the exception is caught inside _encode_frames, which returns
\* to the loop of _encoding_worker (line 280, then line 270).
AfterEncodeError == "get"

\* _encode_frames lines 303-328: encode the batch; on success write the frame
\* count back under encode_lock; an exception from the encoder at frame k+1
\* leaves the first k frames encoded and the frame count as it was.
WorkerEncode ==
    /\ UNCHANGED <<orchvars, runvars>>
    /\ enc_pc = "encode"
    /\ LET id == enc_task.recording_id
           frames == enc_task.frames
       IN \/ /\ encoded' = [encoded EXCEPT ![id] =
                              @ \o Stamped(frames, enc_frame_count, Len(frames))]
             /\ active_recordings' =
                    IF id \in DOMAIN active_recordings
                    THEN [active_recordings EXCEPT ![id].frame_count =
                              NewFrameCount(enc_frame_count, frames)]
                    ELSE active_recordings
             /\ UNCHANGED <<nerrors, h_errored>>
             /\ enc_pc' = "get"
          \/ /\ nerrors < MaxErrors
             /\ \E k \in 0 .. (Len(frames) - 1) :
                    encoded' = [encoded EXCEPT ![id] =
                                   @ \o Stamped(frames, enc_frame_count, k)]
             /\ nerrors' = nerrors + 1
             /\ h_errored' = h_errored \cup {id}
             /\ UNCHANGED active_recordings
             /\ enc_pc' = AfterEncodeError
    /\ enc_task' = NoTask
    /\ UNCHANGED <<recording, current_recording_id, next_recording_id, frame_buffer,
                   encoding_queue, lock, capvars, enc_frame_count, files, mainvars,
                   h_lastCall, h_preroll, h_snapAt, h_enq, h_finq, h_final, h_finfail,
                   h_pushes, h_capTaken>>

\* A faulty variant of AfterFinalizeError: the handler queues the task again.
AfterFinalizeError_Retry(q, id) == Append(q, FinalizeTask(id))

\* Lines 454-457: the except clause of _finalize_recording prints and returns;
\* the queue is left as it is.
AfterFinalizeError(q, id) == q

\* _finalize_recording lines 435-457: flush, close, write the file; an
\* exception is logged and nothing is retried.
WorkerFinalize ==
    /\ UNCHANGED <<orchvars, runvars>>
    /\ enc_pc = "finalize"
    /\ \/ /\ files' = files \cup {enc_task.recording_id}
          /\ UNCHANGED <<nerrors, h_finfail, encoding_queue>>
       \/ /\ nerrors < MaxErrors
          /\ nerrors' = nerrors + 1
          /\ h_finfail' = h_finfail \cup {enc_task.recording_id}
          /\ encoding_queue' = AfterFinalizeError(encoding_queue, enc_task.recording_id)
          /\ UNCHANGED files
    /\ enc_pc' = "get"
    /\ enc_task' = NoTask
    /\ UNCHANGED <<recording, current_recording_id, next_recording_id, active_recordings,
                   frame_buffer, lock, capvars, enc_frame_count, encoded, mainvars,
                   h_lastCall, h_preroll, h_snapAt, h_enq, h_finq, h_final, h_errored,
                   h_pushes, h_capTaken>>

\* -------------------------------------------- VideoRecorder.start_recording
\* A faulty variant of StartGuard: start_recording without its early return.
StartGuard_NoCheck == TRUE

\* Line 333: if self.recording: return.
StartGuard == ~recording

\* Lines 333-367: the guard, the id reservation and the registration of the
\* session under encode_lock.
StartRegister ==
    /\ UNCHANGED <<orchvars, runvars>>
    /\ main_pc = "start_recording"
    /\ IF StartGuard
       THEN /\ rec_id' = next_recording_id
            /\ next_recording_id' = next_recording_id + 1
            /\ active_recordings' =
                  [i \in DOMAIN active_recordings \cup {next_recording_id} |->
                      IF i = next_recording_id THEN [frame_count |-> 0]
                      ELSE active_recordings[i]]
            /\ main_pc' = "start_flip"
            /\ UNCHANGED h_lastCall
       ELSE /\ main_pc' = main_ret
            /\ h_lastCall' = "start_noop"
            /\ UNCHANGED <<rec_id, next_recording_id, active_recordings>>
    /\ UNCHANGED <<recording, current_recording_id, frame_buffer, encoding_queue, lock,
                   capvars, encvars, main_ret, main_frames,
                   h_preroll, h_snapAt, h_enq, h_finq, h_final, h_errored, h_finfail,
                   h_pushes, h_capTaken>>

\* Lines 370-378, under self.lock: flip the flag, set the current id, snapshot
\* and clear the pre-roll buffer.
StartFlip ==
    /\ UNCHANGED <<device_connected, midivars, cbvars, envvars, h_pulses, h_starts,
                   h_fresh, h_msg, runvars>>
    /\ main_pc = "start_flip"
    /\ lock = "free"
    /\ recording' = TRUE
    /\ h_trig' = None
    /\ current_recording_id' = rec_id
    /\ main_frames' = frame_buffer
    /\ frame_buffer' = << >>
    /\ h_preroll' = [h_preroll EXCEPT ![rec_id] = frame_buffer]
    /\ h_snapAt' = [h_snapAt EXCEPT ![rec_id] = nframes]
    /\ h_pushes' = 0
    /\ main_pc' = "start_put"
    /\ UNCHANGED <<next_recording_id, active_recordings, encoding_queue, lock,
                   capvars, encvars, main_ret, rec_id,
                   h_lastCall, h_enq, h_finq, h_final, h_errored, h_finfail, h_capTaken>>

\* Lines 381-386: put the pre-roll task, after the capture lock was released.
StartPut ==
    /\ UNCHANGED <<orchvars, runvars>>
    /\ main_pc = "start_put"
    /\ IF main_frames # << >>
       THEN /\ ~QueueFull(encoding_queue)
            /\ encoding_queue' =
                  Append(encoding_queue, EncodeTask(main_frames, rec_id, rec_id))
            /\ h_enq' = NoteEnq(h_enq, EncodeTask(main_frames, rec_id, rec_id))
       ELSE UNCHANGED <<encoding_queue, h_enq>>
    /\ main_frames' = << >>
    /\ main_pc' = main_ret
    /\ h_lastCall' = "none"
    /\ UNCHANGED <<recording, current_recording_id, next_recording_id, active_recordings,
                   frame_buffer, lock, capvars, encvars, main_ret, rec_id,
                   h_preroll, h_snapAt, h_finq, h_final, h_errored, h_finfail,
                   h_pushes, h_capTaken>>

\* --------------------------------------------- VideoRecorder.stop_recording
\* Line 391: if not self.recording: return.
StopGuard == recording

\* The buffer stop_recording leaves behind (it copies the frames, line 401,
\* and does not clear the deque).
StopBufferAfter(buf) == buf

\* Lines 391-406: the guard; then, holding self.lock, read the current id and
\* put the residual frames.
StopFlush ==
    /\ UNCHANGED <<orchvars, runvars>>
    /\ main_pc = "stop_recording"
    /\ IF StopGuard
       THEN /\ lock = "free"
            /\ lock' = "main"
            /\ rec_id' = current_recording_id
            /\ IF Len(frame_buffer) > 0
               THEN /\ ~QueueFull(encoding_queue)
                    /\ encoding_queue' =
                          Append(encoding_queue,
                                 EncodeTask(frame_buffer, current_recording_id,
                                            current_recording_id))
                    /\ h_enq' = NoteEnq(h_enq, EncodeTask(frame_buffer,
                                                          current_recording_id,
                                                          current_recording_id))
               ELSE UNCHANGED <<encoding_queue, h_enq>>
            /\ frame_buffer' = StopBufferAfter(frame_buffer)
            /\ main_pc' = "stop_finalize"
            /\ UNCHANGED h_lastCall
       ELSE /\ main_pc' = main_ret
            /\ h_lastCall' = "stop_noop"
            /\ UNCHANGED <<lock, rec_id, encoding_queue, h_enq, frame_buffer>>
    /\ UNCHANGED <<recording, current_recording_id, next_recording_id, active_recordings,
                   capvars, encvars, main_ret, main_frames,
                   h_preroll, h_snapAt, h_finq, h_final, h_errored, h_finfail,
                   h_pushes, h_capTaken>>

\* Lines 409-415, still holding self.lock: put the finalize task, clear the
\* flag and the current id; the lock is released on leaving the with block.
StopFinalize ==
    /\ UNCHANGED <<orchvars, runvars>>
    /\ main_pc = "stop_finalize"
    /\ lock = "main"
    /\ ~QueueFull(encoding_queue)
    /\ encoding_queue' = Append(encoding_queue, FinalizeTask(rec_id))
    /\ h_finq' = h_finq \cup {rec_id}
    /\ recording' = FALSE
    /\ current_recording_id' = None
    /\ lock' = "free"
    /\ main_pc' = main_ret
    /\ h_lastCall' = "none"
    /\ UNCHANGED <<next_recording_id, active_recordings, frame_buffer,
                   capvars, encvars, main_ret, rec_id, main_frames,
                   h_preroll, h_snapAt, h_enq, h_final, h_errored, h_finfail,
                   h_pushes, h_capTaken>>

\* ------------------------------------------------- a caller of the recorder
\* One thread calling start_recording and stop_recording in any order, as the
\* main thread does (lines 506 and 511) but without its conditions.
CallStart ==
    /\ UNCHANGED <<orchvars, runvars>>
    /\ main_pc = "idle"
    /\ \/ next_recording_id < MaxSessions
       \/ recording
    /\ main_pc' = "start_recording"
    /\ main_ret' = "idle"
    /\ h_lastCall' = "none"
    /\ UNCHANGED <<recvars, capvars, encvars, rec_id, main_frames,
                   h_preroll, h_snapAt, h_enq, h_finq, h_final, h_errored, h_finfail,
                   h_pushes, h_capTaken>>

CallStop ==
    /\ UNCHANGED <<orchvars, runvars>>
    /\ main_pc = "idle"
    /\ main_pc' = "stop_recording"
    /\ main_ret' = "idle"
    /\ h_lastCall' = "none"
    /\ UNCHANGED <<recvars, capvars, encvars, rec_id, main_frames,
                   h_preroll, h_snapAt, h_enq, h_finq, h_final, h_errored, h_finfail,
                   h_pushes, h_capTaken>>

Next ==
    \/ CaptureFrame
    \/ CaptureTag
    \/ CapturePut
    \/ WorkerGet
    \/ WorkerEncode
    \/ WorkerFinalize
    \/ CallStart
    \/ StartRegister
    \/ StartFlip
    \/ StartPut
    \/ CallStop
    \/ StopFlush
    \/ StopFinalize

Spec == Init /\ [][Next]_vars

\* The encode worker keeps running (the loop of line 270).
WorkerRun ==
    \/ WorkerGet
    \/ WorkerEncode
    \/ WorkerFinalize

FairSpec ==
    /\ Spec
    /\ WF_vars(WorkerRun)

\* ---------------------------------------------------- VideoRecorder.release
\* release(), lines 462-464, called when the caller ends the run (line 526):
\* three attribute writes, no lock taken, current_recording_id left as it is.
ReleaseCapture ==
    /\ UNCHANGED orchvars
    /\ main_pc = "idle"
    /\ capture_running' = FALSE
    /\ main_pc' = "release_encoding"
    /\ UNCHANGED <<recvars, encoding_running, capvars, encvars, main_ret, rec_id,
                   main_frames, histvars>>

ReleaseEncoding ==
    /\ UNCHANGED orchvars
    /\ main_pc = "release_encoding"
    /\ encoding_running' = FALSE
    /\ main_pc' = "release_recording"
    /\ UNCHANGED <<recvars, capture_running, capvars, encvars, main_ret, rec_id,
                   main_frames, histvars>>

ReleaseRecording ==
    /\ UNCHANGED orchvars
    /\ main_pc = "release_recording"
    /\ recording' = FALSE
    /\ main_pc' = "released"
    /\ UNCHANGED <<current_recording_id, next_recording_id, active_recordings,
                   frame_buffer, encoding_queue, lock, runvars, capvars, encvars,
                   main_ret, rec_id, main_frames, histvars>>

\* The recorder with a caller that may end the run between two calls.
NextShutdown ==
    \/ Next
    \/ ReleaseCapture
    \/ ReleaseEncoding
    \/ ReleaseRecording

SpecShutdown == Init /\ [][NextShutdown]_vars

\* ------------------------------------------------ MidiListener.midi_callback
\* The messages the controller sends: sustain pedal (status 176, controller 64)
\* with a value, and note on.
PedalValues == {0, PedalThreshold - 1, PedalThreshold, 127}

Messages == [kind : {"cc64"}, value : PedalValues]
                \cup {[kind |-> "note_on", value |-> None]}

\* A faulty variant of PedalReleased: the threshold value counts as released.
PedalReleased_Inclusive(v) == v <= PedalThreshold

\* Line 91: if pedal_value < 40.
PedalReleased(v) == v < PedalThreshold

\* Lines 85-110, up to the first attribute write of the branch taken.
MidiDeliver ==
    /\ cb_pc = "idle"
    /\ midi_open
    /\ device_present
    /\ playing
    /\ nevents < MaxEvents
    /\ nevents' = nevents + 1
    /\ \E msg \in Messages :
          /\ h_msg' = msg
          /\ IF msg.kind = "cc64"
             THEN IF PedalReleased(msg.value)
                  THEN IF pedal_pressed
                       THEN \* line 95
                            /\ last_event_age' = 0
                            /\ pedal_value' = msg.value
                            /\ cb_pc' = "release"
                            /\ UNCHANGED <<pedal_pressed, note_event_occurred,
                                           h_pulses, h_starts, h_fresh, h_trig>>
                       ELSE \* line 98: ignored as noise
                            /\ UNCHANGED <<last_event_age, pedal_pressed,
                                           note_event_occurred, pedal_value, cb_pc,
                                           h_pulses, h_starts, h_fresh, h_trig>>
                  ELSE \* lines 102-104
                       /\ pedal_pressed' = TRUE
                       /\ pedal_value' = msg.value
                       /\ cb_pc' = "press"
                       /\ UNCHANGED <<last_event_age, note_event_occurred,
                                      h_pulses, h_starts, h_fresh, h_trig>>
             ELSE \* line 110
                  /\ note_event_occurred' = TRUE
                  /\ h_pulses' = h_pulses + 1
                  /\ h_fresh' = TRUE
                  /\ h_trig' = IF ~recording /\ device_present /\ midi_open
                              THEN nplugs ELSE h_trig
                  /\ cb_pc' = "stamp"
                  /\ UNCHANGED <<last_event_age, pedal_pressed, pedal_value, h_starts>>
    /\ UNCHANGED <<recvars, runvars, capvars, encvars, mainvars, histvars, device_connected,
                   midi_open, envvars>>

\* Line 96: self.pedal_pressed = False.
MidiRelease ==
    /\ cb_pc = "release"
    /\ pedal_pressed' = FALSE
    /\ pedal_value' = None
    /\ cb_pc' = "idle"
    /\ UNCHANGED <<recvars, runvars, capvars, encvars, mainvars, histvars, device_connected,
                   midi_open, last_event_age, note_event_occurred, nevents, envvars,
                   orchhist>>

\* Line 105: self.note_event_occurred = True.
MidiPress ==
    /\ cb_pc = "press"
    /\ note_event_occurred' = TRUE
    /\ h_pulses' = h_pulses + 1
    /\ h_fresh' = TRUE
    /\ h_trig' = IF ~recording /\ device_present /\ midi_open THEN nplugs ELSE h_trig
    /\ cb_pc' = "stamp"
    /\ UNCHANGED <<recvars, runvars, capvars, encvars, mainvars, histvars, device_connected,
                   midi_open, last_event_age, pedal_pressed, pedal_value, nevents,
                   envvars, h_starts, h_msg>>

\* Lines 106 and 111: self.last_event_time = time.time().
MidiStamp ==
    /\ cb_pc = "stamp"
    /\ last_event_age' = 0
    /\ pedal_value' = None
    /\ cb_pc' = "idle"
    /\ UNCHANGED <<recvars, runvars, capvars, encvars, mainvars, histvars, device_connected,
                   midi_open, pedal_pressed, note_event_occurred, nevents, envvars,
                   orchhist>>

\* ------------------------------------------------------------- environment
\* One second passes.
Tick ==
    /\ last_event_age # None
    /\ last_event_age <= Linger
    /\ last_event_age' = last_event_age + 1
    /\ UNCHANGED <<recvars, runvars, capvars, encvars, mainvars, histvars, device_connected,
                   midi_open, pedal_pressed, note_event_occurred, cbvars, envvars,
                   orchhist>>

\* The controller is unplugged or plugged back in.
EnvPlug ==
    /\ nplugs < MaxPlugs
    /\ nplugs' = nplugs + 1
    /\ device_present' = ~device_present
    /\ UNCHANGED <<recvars, runvars, capvars, encvars, mainvars, histvars, device_connected,
                   midivars, cbvars, playing, orchhist>>

\* The performer stops playing: no message is sent from here on.
EnvStopPlaying ==
    /\ playing
    /\ cb_pc = "idle"
    /\ playing' = FALSE
    /\ UNCHANGED <<recvars, runvars, capvars, encvars, mainvars, histvars, device_connected,
                   midivars, cbvars, device_present, nplugs, orchhist>>

\* ----------------------------------------------------------- __main__ loop
\* Lines 487-502: the hotplug check, when it is due.  On a disconnect the
\* listener is stopped; on a reconnect a new MidiListener replaces it.
LoopHotplug ==
    /\ main_pc = "loop_top"
    /\ \E due \in BOOLEAN :
          IF due /\ ~device_present /\ device_connected
          THEN /\ device_connected' = FALSE
               /\ midi_open' = FALSE
               /\ UNCHANGED <<last_event_age, pedal_pressed, note_event_occurred,
                              cb_pc, pedal_value>>
          ELSE IF due /\ device_present /\ ~device_connected
          THEN \* MidiListener.__init__, lines 63-66, and start()
               /\ device_connected' = TRUE
               /\ midi_open' = TRUE
               /\ last_event_age' = None
               /\ pedal_pressed' = FALSE
               /\ note_event_occurred' = FALSE
               /\ cb_pc' = "idle"
               /\ pedal_value' = None
          ELSE UNCHANGED <<device_connected, midivars, cb_pc, pedal_value>>
    /\ main_pc' = "loop_pulse"
    /\ UNCHANGED <<recvars, runvars, capvars, encvars, main_ret, rec_id, main_frames, histvars,
                   nevents, envvars, orchhist>>

\* check_and_clear_event, lines 115-118: the value returned; the flag is
\* cleared by the caller's step.
CheckAndClear == note_event_occurred

\* Lines 504-506.
LoopPulse ==
    /\ main_pc = "loop_pulse"
    /\ IF ~device_connected
       THEN /\ main_pc' = "loop_top"
            /\ UNCHANGED <<main_ret, note_event_occurred, h_starts, h_fresh>>
       ELSE /\ note_event_occurred' = FALSE
            /\ h_fresh' = IF CheckAndClear THEN FALSE ELSE h_fresh
            /\ IF CheckAndClear /\ ~recording
               THEN /\ next_recording_id < MaxSessions
                    /\ main_pc' = "start_recording"
                    /\ main_ret' = "loop_stop_guard"
                    /\ h_starts' = h_starts + 1
               ELSE /\ main_pc' = "loop_stop_guard"
                    /\ UNCHANGED <<main_ret, h_starts>>
    /\ UNCHANGED <<recvars, runvars, capvars, encvars, rec_id, main_frames, histvars,
                   device_connected, midi_open, last_event_age, pedal_pressed, cbvars,
                   envvars, h_pulses, h_msg, h_trig>>

\* Lines 509-510: the condition under which stop_recording is called.
ShouldStop ==
    /\ recording
    /\ last_event_age # None
    /\ ~pedal_pressed
    /\ last_event_age > Linger

\* Lines 509-511.
LoopStopGuard ==
    /\ main_pc = "loop_stop_guard"
    /\ IF ShouldStop
       THEN /\ main_pc' = "stop_recording"
            /\ main_ret' = "loop_drain"
       ELSE /\ main_pc' = "loop_top"
            /\ UNCHANGED main_ret
    /\ UNCHANGED <<recvars, runvars, capvars, encvars, rec_id, main_frames, histvars, orchvars>>

\* A faulty variant of Drained: the loop of lines 512-513 left out.
Drained_Nothing(flag) == flag

\* What the drain loop of lines 512-513 leaves in note_event_occurred.
Drained(flag) == FALSE

\* Lines 512-513: while check_and_clear_event(): pass.
LoopDrain ==
    /\ main_pc = "loop_drain"
    /\ note_event_occurred' = Drained(note_event_occurred)
    /\ h_fresh' = FALSE
    /\ main_pc' = "loop_top"
    /\ UNCHANGED <<recvars, runvars, capvars, encvars, main_ret, rec_id, main_frames, histvars,
                   device_connected, midi_open, last_event_age, pedal_pressed, cbvars,
                   envvars, h_pulses, h_starts, h_msg, h_trig>>

\* The program from line 485 on, with a camera that delivers no frame.
InitOrch ==
    /\ InitState
    /\ main_pc = "loop_top"

MainStep ==
    \/ LoopHotplug
    \/ LoopPulse
    \/ LoopStopGuard
    \/ LoopDrain
    \/ StartRegister
    \/ StartFlip
    \/ StartPut
    \/ StopFlush
    \/ StopFinalize

CallbackStep ==
    \/ MidiRelease
    \/ MidiPress
    \/ MidiStamp

WorkerStep ==
    \/ WorkerGet
    \/ WorkerFinalize

NextOrch ==
    \/ MidiDeliver
    \/ CallbackStep
    \/ Tick
    \/ EnvPlug
    \/ EnvStopPlaying
    \/ MainStep
    \/ WorkerStep

SpecOrch == InitOrch /\ [][NextOrch]_vars

\* The threads keep running and time passes; nothing is assumed of the
\* performer or of the plug.
FairOrch ==
    /\ SpecOrch
    /\ WF_vars(MainStep)
    /\ WF_vars(CallbackStep)
    /\ WF_vars(WorkerStep)
    /\ WF_vars(Tick)

\* ================================================================ claims
\* The frames handed to the encoder of session id, in order.
FramesOf(id) == [j \in 1 .. Len(encoded[id]) |-> encoded[id][j].frame]

\* C1: for every session, the frames start_recording snapshotted out of the
\* pre-roll buffer are encoded into it, in buffer order, before any frame
\* captured after the snapshot (sessions with a failed encode aside).
C1_PrerollBeforeLive ==
    \A id \in Ids :
        id \notin h_errored =>
            \A j \in 1 .. Len(encoded[id]) :
                FramesOf(id)[j] > h_snapAt[id] =>
                    /\ Len(h_preroll[id]) < j
                    /\ SubSeq(FramesOf(id), 1, Len(h_preroll[id])) = h_preroll[id]

\* Used by C2.
C2_NoForeignBatch ==
    \A k \in 1 .. Len(encoding_queue) :
        LET task == encoding_queue[k]
        IN (task.type = "encode_frames" /\ task.taken_for \in Ids
                /\ task.recording_id \in Ids)
           => task.taken_for = task.recording_id

C2_FrameCountOwn ==
    \A a \in DOMAIN active_recordings \cap DOMAIN active_recordings' :
        active_recordings'[a].frame_count # active_recordings[a].frame_count
            => (enc_pc = "encode" /\ enc_task.recording_id = a /\ enc_pc' = "get")

\* C2: no batch taken out of the buffer while session A was current is put on
\* the queue with another session's id, and a session's frame_count changes
\* only when the worker finishes one of that session's own encode tasks.
C2_SessionIsolation == [](C2_NoForeignBatch) /\ [][C2_FrameCountOwn]_vars

\* Used by C3.
C3_NoopCall ==
    \/ main_pc = "start_recording" /\ recording /\ main_pc' # main_pc
    \/ main_pc = "stop_recording" /\ ~recording /\ main_pc' # main_pc

\* C3: start_recording called while recording, and stop_recording called while
\* not recording, return without changing next_recording_id,
\* current_recording_id, the live map, the buffer or the queue.
C3_IdempotentStartStop ==
    [][C3_NoopCall =>
          UNCHANGED <<next_recording_id, current_recording_id, active_recordings,
                      frame_buffer, encoding_queue, recording>>]_vars

C3_Witness ==
    /\ h_lastCall = "start_noop"
    /\ recording
    /\ encoding_queue # << >>
    /\ frame_buffer # << >>

\* Used by C4.
C4_StopOrder ==
    (main_pc = "stop_recording" /\ recording /\ main_pc' = "stop_finalize") =>
        encoding_queue' =
            IF frame_buffer = << >> THEN encoding_queue
            ELSE Append(encoding_queue,
                        EncodeTask(frame_buffer, current_recording_id,
                                   current_recording_id))

C4_FinalizeLast ==
    (main_pc = "stop_finalize" /\ main_pc' # main_pc) =>
        encoding_queue' = Append(encoding_queue, FinalizeTask(rec_id))

C4_NothingBehindFinalize == \A s \in h_finq : h_enq'[s] = h_enq[s]

\* C4: stop_recording puts the residual frames (if any) as one encode_frames
\* task and then the finalize_recording task of the session; and once the
\* finalize task of s was put, no encode_frames task with id s is put.
C4_StopOrdering ==
    [][C4_StopOrder /\ C4_FinalizeLast /\ C4_NothingBehindFinalize]_vars

\* C5: for a session without encode error, the frame_count read when its
\* finalize task is processed is the number of frames put on the queue with
\* its id, and the session is then no longer in the live map.
C5_FrameAccounting ==
    \A id \in Ids :
        (h_final[id] # None /\ id \notin h_errored) =>
            /\ h_final[id] = h_enq[id]
            /\ id \notin DOMAIN active_recordings

\* Used by C6.
C6_MostRecent ==
    \A i \in 1 .. Len(frame_buffer) :
        frame_buffer[i] = nframes - Len(frame_buffer) + i

\* C6: the buffer never exceeds its capacity; while not recording its length
\* is min(capacity, pushes) and it holds the most recent frames in order.
C6_PrerollInvariant ==
    /\ Len(frame_buffer) <= BufferSize
    /\ next_recording_id = 0 => Len(frame_buffer) = Min(BufferSize, nframes)
    /\ ~recording =>
          /\ Len(frame_buffer) = Min(BufferSize, h_pushes)
          /\ C6_MostRecent

C6_Witness ==
    /\ ~recording
    /\ next_recording_id = 0
    /\ nframes > BufferSize
    /\ Len(frame_buffer) = BufferSize

\* Used by C7.
C7_Delivered == nevents' = nevents + 1

C7_CallbackContinues == cb_pc # "idle" /\ cb_pc' # cb_pc /\ main_pc' = main_pc

C7_Sustain(m) == m.kind = "cc64"

C7_Debounce ==
    /\ (C7_Delivered /\ C7_Sustain(h_msg') /\ h_msg'.value < PedalThreshold) =>
          IF pedal_pressed
          THEN cb_pc' = "release" /\ last_event_age' = 0
          ELSE /\ UNCHANGED <<pedal_pressed, last_event_age, note_event_occurred>>
               /\ cb_pc' = "idle"
    /\ (C7_CallbackContinues /\ cb_pc = "release") => ~pedal_pressed'
    /\ ((C7_Delivered \/ C7_CallbackContinues) /\ pedal_pressed /\ ~pedal_pressed') =>
          (cb_pc = "release" /\ C7_Sustain(h_msg) /\ h_msg.value < PedalThreshold)
    /\ (C7_Delivered /\ C7_Sustain(h_msg') /\ h_msg'.value >= PedalThreshold) =>
          (pedal_pressed' /\ cb_pc' = "press")
    /\ (C7_CallbackContinues /\ cb_pc = "press") =>
          (pedal_pressed' /\ note_event_occurred' /\ cb_pc' = "stamp")
    /\ (C7_CallbackContinues /\ cb_pc = "stamp" /\ C7_Sustain(h_msg)) =>
          (pedal_pressed' /\ last_event_age' = 0 /\ cb_pc' = "idle")

\* C7: a sustain message with value v moves pedal_pressed from true to false
\* iff pedal_pressed was true and v < 40; with v < 40 and pedal_pressed false
\* it changes neither pedal_pressed, last_event_time nor note_event_occurred;
\* with v >= 40 it leaves pedal_pressed true and sets note_event_occurred and
\* last_event_time.
C7_DebounceCorrect == [][C7_Debounce]_vars

C7_Witness ==
    /\ h_msg = [kind |-> "cc64", value |-> PedalThreshold - 1]
    /\ cb_pc = "idle"
    /\ ~pedal_pressed
    /\ last_event_age = 0
    /\ h_pulses > 0
    /\ nevents = MaxEvents

\* Used by C8.
C8_CalledUnderGuard ==
    (main_pc = "loop_stop_guard" /\ main_pc' = "stop_recording") =>
        (recording /\ ~pedal_pressed /\ last_event_age # None /\ last_event_age > Linger)

C8_NoStopWhileHeld ==
    (main_pc = "stop_recording" /\ recording /\ main_pc' = "stop_finalize") =>
        ~pedal_pressed

\* C8: stop_recording is called only when a session is active, the pedal is
\* not held, a last activity time exists and more than 7 seconds passed since
\* it; and it never takes effect while the pedal is held.
C8_StopGuard == [][C8_CalledUnderGuard /\ C8_NoStopWhileHeld]_vars

\* Used by C9.
C9_Quiet == ~playing /\ cb_pc = "idle" /\ ~pedal_pressed

C9_StoppedOnce ==
    (main_pc = "stop_finalize" /\ main_pc' # main_pc) => rec_id \notin h_finq

\* C9: once the performer has stopped playing with the pedal up, an active
\* session is eventually stopped, and no session is stopped twice; also
\* after the controller was unplugged and plugged back.
C9_AutoStop ==
    /\ (recording /\ C9_Quiet /\ nplugs = MaxPlugs /\ device_present /\ device_connected)
          ~> ~recording
    /\ [][C9_StoppedOnce]_vars

\* Used by C10.
C10_StartsWithinPulses == h_starts <= h_pulses

C10_StartNeedsFreshPulse ==
    (main_pc = "loop_pulse" /\ main_pc' = "start_recording") => h_fresh

\* C10: the main loop calls start_recording at most once per pulse raised by
\* midi_callback, and only for a pulse raised since it last consumed or
\* drained the flag (so not for one that was pending when it stopped).
C10_AtMostOnceTrigger ==
    [](C10_StartsWithinPulses) /\ [][C10_StartNeedsFreshPulse]_vars

C10_Witness ==
    /\ main_pc = "start_recording"
    /\ h_starts = 2
    /\ 0 \in h_finq
    /\ h_pulses = 2

\* Used by C11.
C11_NeverBlocked ==
    /\ (capture_running /\ nframes < MaxFrames /\ lock # "main") =>
          ENABLED (CaptureFrame \/ CaptureTag \/ CapturePut)
    /\ cap_pc = "tag" => ENABLED CaptureTag
    /\ cap_pc = "put" => ENABLED CapturePut
    /\ lock = "main" <=> main_pc = "stop_finalize"

C11_WorkerStepTaken ==
    \/ enc_pc' # enc_pc
    \/ Len(encoding_queue') < Len(encoding_queue)

C11_WorkerLeavesCapture ==
    C11_WorkerStepTaken => UNCHANGED <<lock, capvars, frame_buffer, runvars>>

\* C11: the capture thread's step is never blocked by the encode worker: with
\* frames left to read it can always step unless stop_recording holds the
\* capture lock, whatever the queue length and wherever the worker is; its put
\* never blocks; and no worker step touches the lock or the capture thread.
C11_CaptureDecoupled == [](C11_NeverBlocked) /\ [][C11_WorkerLeavesCapture]_vars

C11_Witness ==
    /\ cap_pc = "put"
    /\ enc_pc = "encode"
    /\ Len(encoding_queue) >= 2
    /\ main_pc = "idle"

\* Used by C12.
C12_FreshId ==
    next_recording_id' # next_recording_id =>
        /\ next_recording_id' = next_recording_id + 1
        /\ rec_id' = next_recording_id
        /\ next_recording_id \notin DOMAIN active_recordings
        /\ DOMAIN active_recordings' = DOMAIN active_recordings \cup {next_recording_id}

C12_IdsBelowNext ==
    /\ \A id \in DOMAIN active_recordings \cup h_finq \cup files : id < next_recording_id
    /\ current_recording_id # None => current_recording_id < next_recording_id

C12_OneActive ==
    Cardinality({id \in DOMAIN active_recordings : id \notin h_finq}) <= 1

C12_FlagMatchesId ==
    lock = "free" =>
        /\ recording <=> current_recording_id # None
        /\ recording => current_recording_id \in DOMAIN active_recordings

\* C12: session ids are handed out in strictly increasing order and never
\* reused; at most one session is started and not yet stopped; and whenever the
\* capture lock is free, recording is true iff current_recording_id is set, and
\* that id is then a key of the live map.
C12_SessionIdentity ==
    /\ [](C12_IdsBelowNext /\ C12_OneActive /\ C12_FlagMatchesId)
    /\ [][C12_FreshId]_vars

\* Used by C13.
C13_TaggedAsTaken(task) ==
    /\ task.recording_id # None
    /\ task.recording_id = task.taken_for

\* C13: the encode_frames task the capture thread builds after swapping out a
\* full buffer, and every encode_frames task on the queue, carries the id of
\* the session that was current when its frames were taken out of the buffer:
\* never None and never another session's id.
C13_CaptureTagging ==
    /\ cap_pc = "put" => (C13_TaggedAsTaken(cap_task) /\ cap_task.taken_for = h_capTaken)
    /\ \A k \in 1 .. Len(encoding_queue) :
          encoding_queue[k].type = "encode_frames" => C13_TaggedAsTaken(encoding_queue[k])

\* C14: of any two frames handed to the encoder of one session, the one
\* captured earlier is handed first and gets the smaller pts.
C14_CaptureOrder ==
    \A id \in Ids :
        \A j, k \in 1 .. Len(encoded[id]) :
            j < k => /\ encoded[id][j].frame < encoded[id][k].frame
                     /\ encoded[id][j].pts < encoded[id][k].pts

\* C15: every frame handed to a session's encoder gets a pts strictly greater
\* than the pts of every frame handed to that encoder before it, also when an
\* earlier batch of the session failed partway.
C15_PtsIncreasing ==
    \A id \in Ids :
        \A j \in 1 .. (Len(encoded[id]) - 1) :
            encoded[id][j].pts < encoded[id][j + 1].pts

\* C16: a session that was registered and is no longer in the live map, and
\* whose finalize did not fail, has its file written: the session leaves the
\* map only after the flush, the close and the write.
C16_FinalizeOrder ==
    \A id \in Ids :
        (id < next_recording_id /\ id \notin DOMAIN active_recordings
            /\ id \notin h_finfail) => id \in files

\* Used by C17.
C17_FinalizeTasks(q, id) ==
    Cardinality({k \in 1 .. Len(q) : q[k] = FinalizeTask(id)})

C17_AttemptedAtMostOnce ==
    (enc_pc = "get" /\ enc_pc' = "finalize") => h_final[enc_task'.recording_id] = None

C17_NeverDropped ==
    (enc_pc = "get" /\ Len(encoding_queue') < Len(encoding_queue)
        /\ Head(encoding_queue).type = "finalize_recording") => enc_pc' = "finalize"

C17_NoRetry ==
    \A id \in Ids :
        C17_FinalizeTasks(encoding_queue', id) > C17_FinalizeTasks(encoding_queue, id)
            => (main_pc = "stop_finalize" /\ id = rec_id /\ id \notin h_finq)

C17_WorkerGoesOn ==
    h_finfail' # h_finfail =>
        /\ enc_pc' = "get"
        /\ encoding_queue' = encoding_queue
        /\ encoding_running'

C17_FailedIsGone ==
    \A id \in h_finfail : id \notin DOMAIN active_recordings

C17_ReadyForNext ==
    (enc_pc = "get" /\ encoding_queue # << >>) => ENABLED WorkerGet

\* C17: the finalize of a stopped session is attempted exactly once (its task
\* is put once, is never dropped, and is eventually taken by the worker); when
\* flush, close or write fails the session is still absent from the live map,
\* no finalize task is put again, and the worker is back at its loop, able to
\* take the next task.
C17_FinalizeFailure ==
    /\ [][C17_AttemptedAtMostOnce /\ C17_NeverDropped /\ C17_NoRetry
             /\ C17_WorkerGoesOn]_vars
    /\ [](C17_FailedIsGone /\ C17_ReadyForNext)
    /\ \A id \in Ids : (id \in h_finq) ~> (h_final[id] # None)

C17_Witness ==
    /\ 0 \in h_finfail
    /\ 0 \notin DOMAIN active_recordings
    /\ 1 \in files
    /\ enc_pc = "get"

\* Used by C18.
C18_WorkerSurvives ==
    h_errored' # h_errored =>
        /\ enc_pc' = "get"
        /\ encoding_running'
        /\ encoding_queue' = encoding_queue
        /\ active_recordings' = active_recordings

C18_FailedStaysLive ==
    \A id \in h_errored : h_final[id] = None => id \in DOMAIN active_recordings

C18_Drained == encoding_queue = << >> /\ enc_pc = "get"

\* C18: an error raised while a batch is encoded leaves the worker in its
\* loop with the queue untouched; whatever is queued after a failure is
\* eventually taken and processed, until the queue is empty and the worker
\* idle; and the failed session stays in the live map until its own finalize
\* task is processed.
C18_EncodeFailureContained ==
    /\ [][C18_WorkerSurvives]_vars
    /\ [](C18_FailedStaysLive)
    /\ (h_errored # {} /\ encoding_queue # << >>) ~> C18_Drained

C18_Witness ==
    /\ 0 \in h_errored
    /\ 0 \in files
    /\ Len(encoded[1]) > 0
    /\ C18_Drained

\* Used by C19.
C19_Frames(q) == {q[k] : k \in 1 .. Len(q)}

C19_FramesLeave == C19_Frames(frame_buffer) \ C19_Frames(frame_buffer') # {}

C19_LeaveAsBatch ==
    ((recording \/ recording') /\ C19_FramesLeave) =>
        \/ /\ cap_pc = "read" /\ cap_pc' = "tag"
           /\ frames_to_encode' = frame_buffer
           /\ lock = "free"
        \/ /\ main_pc = "start_flip" /\ main_pc' = "start_put"
           /\ main_frames' = frame_buffer
           /\ lock = "free"

C19_PushKeepsAll ==
    (recording /\ nframes' = nframes + 1) =>
        frame_buffer' = IF Len(frame_buffer) >= BufferSize
                        THEN <<nframes'>>
                        ELSE Append(frame_buffer, nframes')

C19_BatchHandedOn ==
    /\ (cap_pc = "tag" /\ cap_pc' = "put") => cap_task'.frames = frames_to_encode
    /\ (cap_pc = "put" /\ cap_pc' = "read") =>
          /\ cap_task.frames = frames_to_encode
          /\ encoding_queue' = Append(encoding_queue, cap_task)
    /\ (main_pc = "start_put" /\ main_pc' # main_pc /\ main_frames # << >>) =>
          /\ Len(encoding_queue') = Len(encoding_queue) + 1
          /\ encoding_queue'[Len(encoding_queue')].frames = main_frames

\* C19: while recording, a push of the capture loop never evicts a frame; a
\* frame leaves the buffer during a recording only when the whole buffer is
\* taken out, in order, in one step under the capture lock, and that batch is
\* what is then put on the encoding queue.
C19_NoSilentEviction ==
    [][C19_LeaveAsBatch /\ C19_PushKeepsAll /\ C19_BatchHandedOn]_vars

C19_Witness ==
    /\ recording
    /\ cap_pc = "tag"
    /\ Len(frames_to_encode) = BufferSize
    /\ frame_buffer = <<nframes>>

\* Used by C20.
C20_TaskFrames(k) ==
    IF encoding_queue[k].type = "encode_frames" THEN C19_Frames(encoding_queue[k].frames)
    ELSE {}

C20_EncodedFrames(id) == {encoded[id][j].frame : j \in 1 .. Len(encoded[id])}

\* C20: no captured frame is in two encode_frames tasks: no two tasks on the
\* queue share a frame, no queued task holds a frame that an earlier task
\* already brought to an encoder, and no frame reached two encoders or one
\* encoder twice.
C20_NoFrameTwice ==
    /\ \A j, k \in 1 .. Len(encoding_queue) :
          j # k => C20_TaskFrames(j) \cap C20_TaskFrames(k) = {}
    /\ \A k \in 1 .. Len(encoding_queue) : \A id \in Ids :
          C20_TaskFrames(k) \cap C20_EncodedFrames(id) = {}
    /\ \A a, b \in Ids : a # b => C20_EncodedFrames(a) \cap C20_EncodedFrames(b) = {}
    /\ \A id \in Ids : Cardinality(C20_EncodedFrames(id)) = Len(encoded[id])

\* Used by C21.
C21_Triggered == h_trig # None /\ h_trig = nplugs

C21_StaysConnected == nplugs = MaxPlugs /\ device_present /\ device_connected

\* C21: an activity event (note on or pedal press) that midi_callback turned
\* into a pulse while the controller was connected and recording was false is
\* eventually followed by start_recording setting recording, also when the
\* callback ran between stop_recording clearing the flag and the drain loop
\* (for a controller that stays connected from the event on, with a session
\* id left).
C21_NoLostTrigger ==
    (C21_Triggered /\ C21_StaysConnected /\ next_recording_id < MaxSessions) ~> recording

====
